---- MODULE Spec2Model ----
(***************************************************************************)
(* Candidate deduplication and concurrent bulk ingestion (server-ats).     *)
(*                                                                         *)
(* One Node.js process: the in-process dedup lock (candidate-dedup.js),    *)
(* the per-file pipeline saveCandidateFromFile, the three ingestion routes *)
(* (/upload, /api/ats/upload-resume, /api/ats/upload-resumes) and the      *)
(* bounded-concurrency dispatcher processFilesWithConcurrency.             *)
(*                                                                         *)
(* Conventions.  A JavaScript string is a sequence of one-character        *)
(* strings.  null, undefined and '' are all falsy and the code tests them  *)
(* only with !value / value || null, so the three are one value, NULL.     *)
(* Every step of the model is one run-to-completion slice of the event     *)
(* loop: it starts when an awaited call returns and ends at the next       *)
(* await.  A store or blob-store call takes effect on the backend at the    *)
(* step in which it returns.                                               *)
(***************************************************************************)
EXTENDS Integers, Sequences, FiniteSets, TLC

\* ------------------------------------------------------------------------
\* Bounds of the model
\* ------------------------------------------------------------------------
MaxAttempts == 2
MaxFiles == 2
\* the number of backend calls (file system, store, blob store) that fail
MaxFaults == 1

\* ------------------------------------------------------------------------
\* Strings
\* ------------------------------------------------------------------------
NULL == <<>>

Min(a, b) == IF a < b THEN a ELSE b

Max(a, b) == IF a > b THEN a ELSE b

Truthy(v) == v # NULL

Digits == {"0", "1", "2", "3", "4", "5", "6", "7", "8", "9"}

IsSpace(c) == c = " "

toLowerCase(c) ==
    CASE c = "A" -> "a"
      [] c = "B" -> "b"
      [] c = "X" -> "x"
      [] c = "J" -> "j"
      [] OTHER -> c

RECURSIVE trimStart(_)
trimStart(s) ==
    IF s = <<>> THEN <<>>
    ELSE IF IsSpace(Head(s)) THEN trimStart(Tail(s)) ELSE s

RECURSIVE trimEnd(_)
trimEnd(s) ==
    IF s = <<>> THEN <<>>
    ELSE IF IsSpace(s[Len(s)]) THEN trimEnd(SubSeq(s, 1, Len(s) - 1)) ELSE s

trim(s) == trimEnd(trimStart(s))

\* value.replace(/\D/g, '')
digitsOf(s) == SelectSeq(s, LAMBDA c : c \in Digits)

\* Array.from(new Set(list)): the first occurrence of every entry, in order
unique(list) ==
    LET first == {i \in 1..Len(list) : \A j \in 1..(i - 1) : list[j] # list[i]}
    IN  [k \in 1..Cardinality(first) |->
            list[CHOOSE i \in first : Cardinality({j \in first : j < i}) = k - 1]]

\* skills.map((skill) => skill.trim().toLowerCase()).filter(Boolean), then
\* the Set
normalizeSkills(skills) ==
    unique(SelectSeq([i \in 1..Len(skills) |->
                         LET trimmed == trim(skills[i])
                         IN  [j \in 1..Len(trimmed) |-> toLowerCase(trimmed[j])]],
                     Truthy))

\* POST /upload: the pieces of req.body.skills (array entries, or the parts
\* between commas) are trimmed, the empty ones dropped, then the Set; the
\* case is left as typed
parseSkillsField(rawSkills) ==
    unique(SelectSeq([i \in 1..Len(rawSkills) |-> trim(rawSkills[i])], Truthy))

normalizeEmail(value) ==
    IF ~Truthy(value) THEN NULL
    ELSE LET trimmed == trim(value)
         IN  [i \in 1..Len(trimmed) |-> toLowerCase(trimmed[i])]

\* a plausible slip: ten digits get no country code
normalizePhoneNoCountryCode(value) ==
    IF ~Truthy(value) THEN NULL
    ELSE LET digits == digitsOf(value)
         IN  IF digits = <<>> THEN NULL ELSE <<"+">> \o digits

normalizePhone(value) ==
    IF ~Truthy(value) THEN NULL
    ELSE LET digits == digitsOf(value)
         IN  IF digits = <<>> THEN NULL
             ELSE IF Len(digits) = 10 THEN <<"+", "1">> \o digits
             ELSE IF Len(digits) = 11 /\ Head(digits) = "1" THEN <<"+">> \o digits
             ELSE <<"+">> \o digits

\* ------------------------------------------------------------------------
\* Resume text extraction (resume-parser.js).  The text of a PDF is
\* represented by the substrings its two regular expressions would match
\* (NULL when there is no match).
\* ------------------------------------------------------------------------
extractEmail(text) ==
    IF text.email = NULL THEN NULL
    ELSE [i \in 1..Len(text.email) |-> toLowerCase(text.email[i])]

extractPhone(text) ==
    IF text.phone = NULL THEN NULL
    ELSE LET digits == digitsOf(text.phone)
         IN  IF Len(digits) = 10 THEN <<"+", "1">> \o digits
             ELSE IF Len(digits) = 11 /\ Head(digits) = "1" THEN <<"+">> \o digits
             ELSE <<"+">> \o digits

\* the entries of SKILL_LIST found in the text, lower-cased, then the Set
extractSkills(text) ==
    unique([i \in 1..Len(text.skills) |->
               [j \in 1..Len(text.skills[i]) |-> toLowerCase(text.skills[i][j])]])

parseResumeText(text) ==
    [email |-> extractEmail(text), phone |-> extractPhone(text),
     skills |-> extractSkills(text)]

\* ------------------------------------------------------------------------
\* Inputs: the PDF files and the /upload form bodies the requests carry
\* ------------------------------------------------------------------------
EmailA == <<"A", "@", "x", ".", "i", "o">>

EmailAPadded == <<" ", "a", "@", "X", ".", "i", "o", " ">>

PhoneParens == <<"(", "5", "5", "5", ")", " ", "1", "2", "3", "-", "4", "5", "6", "7">>

PhoneDots == <<"5", "5", "5", ".", "1", "2", "3", ".", "4", "5", "6", "7">>

\* an entry of SKILL_LIST, and the pieces of a skills form field as typed
SkillJava == <<"j", "a", "v", "a">>

SkillsTyped ==
    << <<" ", "J", "a", "v", "a">>, <<"j", "a", "v", "a", " ">>, <<" ">>,
       <<"J", "a", "v", "a">> >>

\* An uploaded file: its bytes, the text pdf-parse extracts from them, and
\* the mimetype and extension multer reports for it.
Documents ==
    { [bytes |-> <<"P1">>,
       text |-> [email |-> EmailA, phone |-> PhoneParens, skills |-> <<SkillJava>>],
       mimetype |-> "application/pdf", extname |-> ".PDF"],
      [bytes |-> <<"P2">>, text |-> [email |-> NULL, phone |-> NULL, skills |-> <<>>],
       mimetype |-> "application/octet-stream", extname |-> ".pdf"],
      [bytes |-> <<"T1">>, text |-> [email |-> NULL, phone |-> NULL, skills |-> <<>>],
       mimetype |-> "text/plain", extname |-> ".txt"] }

\* path.extname(file.originalname).toLowerCase()
lowerExtname(ext) == IF ext = ".PDF" THEN ".pdf" ELSE ext

\* multer's fileFilter: TRUE for callback(null, true), FALSE for
\* callback(new Error('Only PDF files are allowed.'))
fileFilter(file) ==
    file.mimetype = "application/pdf" \/ lowerExtname(file.extname) = ".pdf"

PdfText(bytes) == (CHOOSE d \in Documents : d.bytes = bytes).text

\* req.body and req.file.buffer of POST /upload
Forms ==
    { [email |-> EmailAPadded, phone |-> NULL, skills |-> SkillsTyped, bytes |-> <<"P2">>],
      [email |-> NULL, phone |-> PhoneDots, skills |-> <<>>, bytes |-> <<"P2">>],
      [email |-> NULL, phone |-> NULL, skills |-> SkillsTyped, bytes |-> <<"P2">>] }

\* ------------------------------------------------------------------------
\* Content addressing (candidate-dedup.js)
\* ------------------------------------------------------------------------
\* SHA-256 is modelled as collision free: the digest names the bytes.
buildResumeHash(fileBuffer) == <<"sha256:">> \o fileBuffer

RECURSIVE stripLeadingSlashes(_)
stripLeadingSlashes(s) ==
    IF s # <<>> /\ Head(s) = "/" THEN stripLeadingSlashes(Tail(s)) ELSE s

RECURSIVE stripTrailingSlashes(_)
stripTrailingSlashes(s) ==
    IF s # <<>> /\ s[Len(s)] = "/"
    THEN stripTrailingSlashes(SubSeq(s, 1, Len(s) - 1)) ELSE s

buildResumeStoragePath(resumeHash, prefix) ==
    stripTrailingSlashes(stripLeadingSlashes(IF Truthy(prefix) THEN prefix ELSE <<"uploads">>))
        \o <<"/">> \o resumeHash \o <<".pdf">>

getResumePublicUrl(bucket, storagePath) ==
    <<"https://project/storage/v1/object/public/">> \o bucket \o <<"/">> \o storagePath

\* process.env.SUPABASE_RESUME_BUCKET || 'resumes'
resumeBucket == <<"resumes">>

\* ------------------------------------------------------------------------
\* Dedup keys (candidate-dedup.js)
\* ------------------------------------------------------------------------
\* Array.prototype.sort() orders strings by code unit; the three key forms
\* differ in their first character, 'e' < 'h' < 'p', and a list holds at
\* most one key of each form.
KeyRank(key) ==
    CASE Head(key) = "email" -> 1
      [] Head(key) = "hash" -> 2
      [] Head(key) = "phone" -> 3

sort(keys) ==
    SelectSeq(keys, LAMBDA k : KeyRank(k) = 1)
        \o SelectSeq(keys, LAMBDA k : KeyRank(k) = 2)
        \o SelectSeq(keys, LAMBDA k : KeyRank(k) = 3)

\* a plausible slip: the list is returned in insertion order
buildDedupKeysUnsorted(email, phone, resumeHash) ==
    (IF Truthy(email) THEN << <<"email", ":">> \o email >> ELSE <<>>)
       \o (IF Truthy(phone) THEN << <<"phone", ":">> \o phone >> ELSE <<>>)
       \o (IF Truthy(resumeHash) THEN << <<"hash", ":">> \o resumeHash >> ELSE <<>>)

buildDedupKeys(email, phone, resumeHash) ==
    sort( (IF Truthy(email) THEN << <<"email", ":">> \o email >> ELSE <<>>)
       \o (IF Truthy(phone) THEN << <<"phone", ":">> \o phone >> ELSE <<>>)
       \o (IF Truthy(resumeHash) THEN << <<"hash", ":">> \o resumeHash >> ELSE <<>>) )

Range(seq) == {seq[i] : i \in 1..Len(seq)}

\* ------------------------------------------------------------------------
\* The in-process lock (candidate-dedup.js, withDedupLock)
\* ------------------------------------------------------------------------
\* a plausible slip: only the first key of the list is looked up
hasHeldKeyFirstOnly(keys, held) == keys # <<>> /\ keys[1] \in held

\* for (const key of keys) if (inFlightDedupKeys.has(key)) throw ...
hasHeldKey(keys, held) == \E i \in 1..Len(keys) : keys[i] \in held

\* the key the loop throws on: the first key of the list that is held
firstHeldKey(keys, held) ==
    keys[CHOOSE i \in 1..Len(keys) :
            /\ keys[i] \in held
            /\ \A j \in 1..(i - 1) : keys[j] \notin held]

\* key.split(':')[0]
matchByOfKey(key) == Head(key)

\* a plausible slip: check and add in one loop, so the keys before the held
\* one are already added when the loop throws
heldAfterPartialAdd(keys, held) ==
    held \cup {keys[j] : j \in {i \in 1..Len(keys) : \A h \in 1..i : keys[h] \notin held}}

\* the held set after a rejected call: the throw comes before any add
heldAfterRejection(keys, held) == held

\* a plausible slip: only keys[0] is added
addFirstKeyOnly(keys, held) == IF keys = <<>> THEN held ELSE held \cup {keys[1]}

\* keys.forEach((key) => inFlightDedupKeys.add(key))
addKeys(keys, held) == held \cup Range(keys)

\* a plausible slip: only keys[0] is deleted
deleteFirstKeyOnly(keys, held) == IF keys = <<>> THEN held ELSE held \ {keys[1]}

\* keys.forEach((key) => inFlightDedupKeys.delete(key))
deleteKeys(keys, held) == held \ Range(keys)

\* ------------------------------------------------------------------------
\* Errors and outcomes.  An outcome is what saveCandidateFromFile (or the
\* body of POST /upload) settles with: the inserted candidate, a
\* DuplicateCandidateError (details.matchBy, details.candidate.id) or a
\* plain Error.  candidateId 0 stands for "no candidate in the details".
\* ------------------------------------------------------------------------
NoOutcome == [kind |-> "none", message |-> <<>>, matchBy |-> "", candidateId |-> 0]

Inserted(id) == [kind |-> "candidate", message |-> <<>>, matchBy |-> "", candidateId |-> id]

\* a plausible slip: the collision is thrown as a plain Error
inFlightAsPlainError(key) ==
    [kind |-> "Error", message |-> <<"Duplicate candidate is already being processed.">>,
     matchBy |-> "", candidateId |-> 0]

DuplicateInFlightError(key) ==
    [kind |-> "DuplicateCandidateError",
     message |-> <<"Duplicate candidate is already being processed.">>,
     matchBy |-> matchByOfKey(key), candidateId |-> 0]

\* found = [id, matchBy] of the finder, or NoMatch
NoMatch == [id |-> 0, matchBy |-> ""]

DuplicateCandidateError(found) ==
    [kind |-> "DuplicateCandidateError",
     message |-> <<"Duplicate candidate skipped (matched by ",
                   IF found.id # 0 THEN found.matchBy ELSE "constraint", ").">>,
     matchBy |-> found.matchBy, candidateId |-> found.id]

\* a plausible slip: the cause is dropped and a generic text is thrown
GenericError(message) ==
    [kind |-> "Error", message |-> <<"Internal server error">>, matchBy |-> "",
     candidateId |-> 0]

PlainError(message) ==
    [kind |-> "Error", message |-> message, matchBy |-> "", candidateId |-> 0]

\* ------------------------------------------------------------------------
\* The store (schema.sql) and the blob store
\* ------------------------------------------------------------------------
\* where <column> is not null and btrim(<column>) <> ''
Indexed(value) == value # NULL /\ trim(value) # <<>>

lower(value) == [i \in 1..Len(value) |-> toLowerCase(value[i])]

\* a plausible slip: no unique index on resume_url
violatesEmailOrPhoneIndex(record, rows) ==
    \E i \in 1..Len(rows) :
        \/ Indexed(record.email) /\ Indexed(rows[i].email)
             /\ lower(rows[i].email) = lower(record.email)
        \/ Indexed(record.phone) /\ rows[i].phone = record.phone

\* uq_candidates_email_ci, uq_candidates_phone, uq_candidates_resume_url
violatesUniqueIndex(record, rows) ==
    \E i \in 1..Len(rows) :
        \/ Indexed(record.email) /\ Indexed(rows[i].email)
             /\ lower(rows[i].email) = lower(record.email)
        \/ Indexed(record.phone) /\ rows[i].phone = record.phone
        \/ Indexed(record.resume_url) /\ rows[i].resume_url = record.resume_url

\* a plausible slip: the row is written although the store reports an error
insertDespiteError(rows, row, error) ==
    IF error \in {"", "db error"} THEN Append(rows, row) ELSE rows

\* .insert(record): the table after the call; a call that reports an error
\* (23505 or another one) leaves the table as it was
insert(rows, row, error) == IF error = "" THEN Append(rows, row) ELSE rows

\* .eq(column, value).order('created_at', { ascending: false }).limit(1):
\* the id of the newest matching row, 0 when there is none
selectLatest(rows, column, value) ==
    LET hits == {i \in 1..Len(rows) : rows[i][column] = value}
    IN  IF hits = {} THEN 0 ELSE CHOOSE i \in hits : \A j \in hits : j <= i

\* ------------------------------------------------------------------------
\* Configuration (getConfig)
\* ------------------------------------------------------------------------
\* BULK_UPLOAD_CONCURRENCY as a number of halves: 0 stands for unset and for
\* every value that is not a finite number above zero, 1 for 0.5, 2 for 1.
ConcurrencyEnv == {0, 1, 2}

DefaultConcurrency == 8

\* Number.isFinite(raw) && raw > 0 ? Math.floor(raw) : 8
getConfigConcurrency(halves) == IF halves > 0 THEN halves \div 2 ELSE DefaultConcurrency

\* ------------------------------------------------------------------------
\* State
\* ------------------------------------------------------------------------
VARIABLES
    inFlightDedupKeys,      \* candidate-dedup.js: the Set of held keys
    candidates,             \* the candidates table: rows in insertion order
    blobs,                  \* the blob store: occupied <<bucket, path>>
    att,                    \* the ingestion attempts (one per uploaded file)
    bulkUploadConcurrency,  \* config.bulkUploadConcurrency (0 until first read)
    files,                  \* req.files of the batch request (attempt ids)
    nextIndex,              \* processFilesWithConcurrency: the shared cursor
    results,                \* processFilesWithConcurrency: the result array
    workers,                \* processFilesWithConcurrency: the worker loops
    batch,                  \* the batch request: "none", "running", "done", "failed",
                            \* "rejected"
    response,               \* the answer to the batch request
    probe,                  \* a call of buildDedupKeys: its arguments and its result
    faults                  \* the backend calls that have failed so far

vars == <<inFlightDedupKeys, candidates, blobs, att, bulkUploadConcurrency,
          files, nextIndex, results, workers, batch, response, faults, probe>>

Attempts == 1..MaxAttempts

Idle ==
    [route |-> "none", bytes |-> <<>>, pc |-> "none", phase |-> "", q |-> 0,
     payload |-> [email |-> NULL, phone |-> NULL, skills |-> <<>>, resume_url |-> NULL],
     dedupKeys |-> <<>>, outcome |-> NoOutcome, overlaps |-> 0,
     rawEmail |-> NULL, finderRuns |-> <<>>]

\* the first free attempt slot (slots are taken in order)
Fresh ==
    IF att[MaxAttempts].route # "none" THEN MaxAttempts + 1
    ELSE CHOOSE a \in Attempts :
            /\ att[a].route = "none"
            /\ \A b \in 1..(a - 1) : att[b].route # "none"

\* ------------------------------------------------------------------------
\* The locals of one attempt: saveCandidateFromFile (upload-resume and
\* upload-resumes) and the body of POST /upload
\* ------------------------------------------------------------------------
normalizeCandidatePayload(parsed, resumeUrl) ==
    [email |-> normalizeEmail(parsed.email),
     phone |-> normalizePhone(parsed.phone),
     skills |-> normalizeSkills(parsed.skills),
     resume_url |-> resumeUrl]

\* POST /upload stores under 'resumes/', saveCandidateFromFile under the
\* default prefix
storagePathOf(rec) ==
    IF rec.route = "upload"
    THEN buildResumeStoragePath(buildResumeHash(rec.bytes), <<"resumes">>)
    ELSE buildResumeStoragePath(buildResumeHash(rec.bytes), NULL)

bucketOf(rec) == IF rec.route = "upload" THEN <<"resumes">> ELSE resumeBucket

resumeUrlOf(rec) == getResumePublicUrl(bucketOf(rec), storagePathOf(rec))

\* the record POST /upload inserts (the columns the indexes cover)
skillsOfForm == [raw \in {<<>>, SkillsTyped} |-> parseSkillsField(raw)]

uploadRecord(rec, body) ==
    [email |-> normalizeEmail(body.email),
     phone |-> normalizePhone(body.phone),
     skills |-> skillsOfForm[body.skills],
     resume_url |-> resumeUrlOf(rec)]

\* the payload saveCandidateFromFile inserts: a function of the file's
\* bytes alone (parse, hash, path, url, normalise), tabulated over the files
\* of the model
payloadOfBytes ==
    [bytes \in {d.bytes : d \in Documents} |->
        normalizeCandidatePayload(
            parseResumeText(PdfText(bytes)),
            getResumePublicUrl(resumeBucket,
                               buildResumeStoragePath(buildResumeHash(bytes), NULL)))]

payloadOf(rec) == payloadOfBytes[rec.bytes]

\* POST /upload passes no resumeHash to buildDedupKeys
dedupKeysOf(route, payload, bytes) ==
    IF route = "upload"
    THEN buildDedupKeys(payload.email, payload.phone, NULL)
    ELSE buildDedupKeys(payload.email, payload.phone, buildResumeHash(bytes))

\* the locals of the attempt, computed before the lock is tried
withLocals(rec, payload) ==
    [rec EXCEPT !.payload = payload,
                !.dedupKeys = dedupKeysOf(rec.route, payload, rec.bytes)]

\* the arguments of findExistingCandidate, in query order; POST /upload
\* passes no resumeUrl
FinderColumns == <<"email", "phone", "resume_url">>

FinderTags == <<"email", "phone", "resume">>

\* a plausible slip: the finder is given the email as it was typed
finderArgRaw(rec, q) ==
    IF q = 1 THEN rec.rawEmail
    ELSE IF q = 3 /\ rec.route = "upload" THEN NULL ELSE rec.payload[FinderColumns[q]]

finderArg(rec, q) ==
    IF q = 3 /\ rec.route = "upload" THEN NULL ELSE rec.payload[FinderColumns[q]]

\* a plausible slip: no guard on a falsy argument, every query reaches the
\* store
nextQueryNoSkip(rec, from) == IF from > 3 THEN 0 ELSE from

\* queryCandidateBy* returns null without a query when its argument is
\* falsy: the next query that reaches the store, 0 when there is none
nextQuery(rec, from) ==
    LET live == {q \in from..3 : Truthy(finderArg(rec, q))}
    IN  IF live = {} THEN 0 ELSE CHOOSE q \in live : \A p \in live : q <= p

InCriticalSection(rec) == rec.pc \in {"find", "upload", "insert"}

\* saveCandidateFromFile settles: /upload answers at once, the other routes
\* go on to deleteTempFile
settle(rec, outcome) ==
    [rec EXCEPT !.pc = IF rec.route = "upload" THEN "done" ELSE "unlink",
                !.phase = "", !.q = 0, !.outcome = outcome]

\* a plausible slip: existingBeforeUpload is not looked at, the attempt
\* goes on to the upload whatever the pre-check found
finderReturnsPreIgnored(rec, phase, found) ==
    CASE phase = "pre" -> [rec EXCEPT !.pc = "upload", !.phase = "", !.q = 0]
      [] phase = "exists" ->
            IF found.id # 0 THEN settle(rec, DuplicateCandidateError(found))
            ELSE [rec EXCEPT !.pc = "insert", !.phase = "", !.q = 0]
      [] phase = "conflict" -> settle(rec, DuplicateCandidateError(found))

\* findExistingCandidate returned `found` in phase "pre" (before the upload),
\* "exists" (after an already-exists upload) or "conflict" (after 23505)
finderReturns(rec, phase, found) ==
    CASE phase = "pre" ->
            IF found.id # 0 THEN settle(rec, DuplicateCandidateError(found))
            ELSE [rec EXCEPT !.pc = "upload", !.phase = "", !.q = 0]
      [] phase = "exists" ->
            IF found.id # 0 THEN settle(rec, DuplicateCandidateError(found))
            ELSE [rec EXCEPT !.pc = "insert", !.phase = "", !.q = 0]
      [] phase = "conflict" -> settle(rec, DuplicateCandidateError(found))

\* findExistingCandidate is called in `phase` and runs up to its first
\* query that reaches the store.  History: finderRuns lists the phases in
\* which the attempt has called it.
beginFinder(rec, phase) ==
    LET called == [rec EXCEPT !.finderRuns = Append(@, phase)]
    IN  IF nextQuery(rec, 1) = 0 THEN finderReturns(called, phase, NoMatch)
        ELSE [called EXCEPT !.pc = "find", !.phase = phase, !.q = nextQuery(rec, 1)]

\* a plausible slip: `return fn()` without await, so the finally deletes
\* the keys as soon as fn has reached its first await
afterFnNotAwaited(new, keys, held) == deleteKeys(keys, held)

\* a plausible slip: the keys are deleted after `await fn()` without a
\* finally, so a throwing fn leaves them held
afterFnNoFinally(new, keys, held) ==
    IF InCriticalSection(new) \/ new.outcome.kind # "candidate" THEN held
    ELSE deleteKeys(keys, held)

\* try { return await fn() } finally { delete the keys }: the held set once
\* the step that took the attempt to `new` is over
afterFn(new, keys, held) == IF InCriticalSection(new) THEN held ELSE deleteKeys(keys, held)

\* History: an attempt between its acquisition and its release that shares
\* a key with `keys` (0 when there is none): the attempt a call of
\* withDedupLock(keys, ...) overlaps with.
overlapOf(keys) ==
    LET sharing == {b \in Attempts : /\ InCriticalSection(att[b])
                                     /\ Range(att[b].dedupKeys) \cap Range(keys) # {}}
    IN  IF sharing = {} THEN 0 ELSE CHOOSE b \in sharing : TRUE

\* a plausible slip: the keys are added before the loop looks for a held
\* key, so every call with a key finds its own key held
withDedupLockAddFirst(rec, held) ==
    LET keys == rec.dedupKeys IN
    IF keys # <<>>
    THEN [att |-> [settle(rec, DuplicateInFlightError(keys[1]))
                      EXCEPT !.overlaps = overlapOf(keys)],
          held |-> addKeys(keys, held)]
    ELSE [att |-> beginFinder(rec, "pre"), held |-> held]

\* a plausible slip: held keys are compared by their dimension
\* (key.split(':')[0]) instead of the whole key
withDedupLockByDimension(rec, held) ==
    LET keys == rec.dedupKeys
        same == {i \in 1..Len(keys) : \E k \in held : matchByOfKey(k) = matchByOfKey(keys[i])}
    IN  IF same # {}
        THEN [att |-> [settle(rec, DuplicateInFlightError(keys[CHOOSE i \in same : TRUE]))
                          EXCEPT !.overlaps = overlapOf(keys)],
              held |-> heldAfterRejection(keys, held)]
        ELSE [att |-> [beginFinder(rec, "pre") EXCEPT !.overlaps = overlapOf(keys)],
              held |-> afterFn(beginFinder(rec, "pre"), keys, addKeys(keys, held))]

\* withDedupLock(keys, fn) up to the first await inside fn
withDedupLock(rec, held) ==
    LET keys == rec.dedupKeys IN
    IF hasHeldKey(keys, held)
    THEN [att |-> [settle(rec, DuplicateInFlightError(firstHeldKey(keys, held)))
                      EXCEPT !.overlaps = overlapOf(keys)],
          held |-> heldAfterRejection(keys, held)]
    ELSE [att |-> [beginFinder(rec, "pre") EXCEPT !.overlaps = overlapOf(keys)],
          held |-> afterFn(beginFinder(rec, "pre"), keys, addKeys(keys, held))]

\* ------------------------------------------------------------------------
\* The dispatcher (processFilesWithConcurrency) and the batch handler
\* ------------------------------------------------------------------------
\* a plausible slip: one worker per file, whatever the limit
workerCountPerFile(concurrency, n) == Max(1, n)

\* a plausible slip: no Math.max(1, ...), so a limit of 0 starts no worker
workerCountNoFloor(concurrency, n) == Min(concurrency, n)

workerCount(concurrency, n) == Max(1, Min(concurrency, n))

\* an index of `new Array(files.length)` nothing was written to
EmptySlot == [ok |-> FALSE, fileName |-> 0, candidateId |-> 0, error |-> <<>>]

\* the batch request has not been answered
NoResponse ==
    [status |-> 0, message |-> <<>>, totalFiles |-> 0, concurrencyUsed |-> 0,
     uploadedCount |-> 0, failedCount |-> 0, error |-> <<>>]

\* res.status(hasFailures ? 207 : 201).json({...}) of POST /upload-resumes
batchResponse(fileList, outcomes, concurrency) ==
    LET uploaded == SelectSeq(outcomes, LAMBDA result : result # EmptySlot /\ result.ok)
        failed == SelectSeq(outcomes, LAMBDA result : result # EmptySlot /\ ~result.ok)
    IN  [status |-> IF Len(failed) > 0 THEN 207 ELSE 201,
         message |-> IF Len(failed) > 0
                     THEN <<"Bulk upload finished with partial failures.">>
                     ELSE <<"Bulk upload finished successfully.">>,
         totalFiles |-> Len(fileList),
         concurrencyUsed |-> concurrency,
         uploadedCount |-> Len(uploaded),
         failedCount |-> Len(failed),
         error |-> <<>>]

\* the error middleware's answer to the fileFilter error
onlyPdfResponse ==
    [NoResponse EXCEPT !.status = 400, !.error = <<"Only PDF files are allowed.">>]

\* a plausible slip: no catch, so a failing file rejects its worker
bulkHandlerNoCatch(a, outcome) ==
    [thrown |-> outcome.kind # "candidate",
     value |-> [ok |-> TRUE, fileName |-> a, candidateId |-> outcome.candidateId,
                error |-> <<>>]]

\* the per-file handler of POST /upload-resumes: try { ok: true } catch
\* { ok: false, error: error.message }.  fileName stands for the file object
\* (file.originalname): the attempt id.
bulkHandler(a, outcome) ==
    [thrown |-> FALSE,
     value |-> IF outcome.kind = "candidate"
               THEN [ok |-> TRUE, fileName |-> a, candidateId |-> outcome.candidateId,
                     error |-> <<>>]
               ELSE [ok |-> FALSE, fileName |-> a, candidateId |-> 0,
                     error |-> outcome.message]]

\* a plausible slip: results.push(...), which fills the array in completion
\* order
pushResult(array, currentIndex, value) ==
    LET free == {i \in 1..Len(array) : array[i] = EmptySlot}
    IN  [array EXCEPT ![CHOOSE i \in free : \A j \in free : i <= j] = value]

\* results[currentIndex] = ...
writeResult(array, currentIndex, value) == [array EXCEPT ![currentIndex + 1] = value]

\* a plausible slip: 'already exists' is not told apart from other errors
neverAlreadyExists(error) == FALSE

isStorageAlreadyExistsError(error) == error = "already exists"

\* a plausible slip: every insert error is taken for a uniqueness violation
anyInsertError(error) == error # ""

isUniqueViolation(error) == error = "23505"

\* the answer of a single-file route to an attempt that settled with
\* `outcome`: POST /upload answers 200 {ok}, 409 with a fixed message or 500;
\* (error: String(err)); POST /upload-resume answers 201 with the candidate,
\* 409 with the error's message, or hands the error to the error middleware
\* (500, error: error.message).  In both the
\* 409 body carries error and duplicateCandidateId and nothing else.
httpResponse(route, outcome) ==
    CASE outcome.kind = "candidate" ->
            [status |-> IF route = "upload" THEN 200 ELSE 201,
             error |-> <<>>, duplicateCandidateId |-> 0]
      [] outcome.kind = "DuplicateCandidateError" ->
            [status |-> 409,
             error |-> IF route = "upload"
                       THEN <<"User already exists with same email or phone number.">>
                       ELSE outcome.message,
             duplicateCandidateId |-> outcome.candidateId]
      [] OTHER ->
            [status |-> 500,
             error |-> IF route = "upload" THEN <<"Error: ">> \o outcome.message
                       ELSE outcome.message,
             duplicateCandidateId |-> 0]

\* ------------------------------------------------------------------------
\* Initial state: a fresh process, an empty table and an empty bucket
\* ------------------------------------------------------------------------
\* no call of buildDedupKeys is being looked at
NoProbe == [email |-> NULL, phone |-> NULL, resumeHash |-> NULL, keys |-> <<>>, pc |-> "none"]

Init ==
    /\ probe = NoProbe
    /\ inFlightDedupKeys = {}
    /\ candidates = <<>>
    /\ blobs = {}
    /\ att = [a \in Attempts |-> Idle]
    /\ bulkUploadConcurrency = 0
    /\ files = <<>>
    /\ nextIndex = 0
    /\ results = <<>>
    /\ workers = <<>>
    /\ batch = "none"
    /\ response = NoResponse
    /\ faults = 0

\* a backend call may fail while the budget of failures lasts
Outcomes == IF faults < MaxFaults THEN {FALSE, TRUE} ELSE {FALSE}

BatchVars == <<files, nextIndex, results, workers, batch, response>>

\* ------------------------------------------------------------------------
\* Requests
\* ------------------------------------------------------------------------
\* POST /upload: multer keeps the file in memory; the handler runs up to the
\* first query inside withDedupLock
PostUpload(form) ==
    /\ UNCHANGED probe
    /\ Fresh <= MaxAttempts
    /\ \E rec \in {[Idle EXCEPT !.route = "upload", !.bytes = form.bytes,
                                 !.rawEmail = form.email]} :
       \E locals \in {withLocals(rec, uploadRecord(rec, form))} :
          LET r == withDedupLock(locals, inFlightDedupKeys)
          IN  /\ att' = [att EXCEPT ![Fresh] = r.att]
              /\ inFlightDedupKeys' = r.held
    /\ UNCHANGED <<candidates, blobs, bulkUploadConcurrency, BatchVars, faults>>

\* POST /api/ats/upload-resume with exactly one file: up to readFile
PostUploadResume(bytes) ==
    /\ UNCHANGED probe
    /\ Fresh <= MaxAttempts
    /\ fileFilter(CHOOSE d \in Documents : d.bytes = bytes)
    /\ att' = [att EXCEPT ![Fresh] = [Idle EXCEPT !.route = "ats", !.bytes = bytes,
                                                  !.rawEmail = PdfText(bytes).email,
                                                  !.pc = "read"]]
    /\ UNCHANGED <<inFlightDedupKeys, candidates, blobs, bulkUploadConcurrency, BatchVars, faults>>

\* POST /api/ats/upload-resumes with n >= 1 files: every worker claims its
\* first index and its handler runs up to readFile, before any await returns.
\* getConfig() reads BULK_UPLOAD_CONCURRENCY when the router is created;
\* nothing reads the value before this request, which is where the model
\* draws it.
PostUploadResumes(docs, env) ==
    LET n == Len(docs)
        first == Fresh
        concurrency == getConfigConcurrency(env)
        wc == workerCount(concurrency, n)
    IN  /\ batch = "none"
        /\ \A i \in 1..n : fileFilter(docs[i])
        /\ bulkUploadConcurrency' = concurrency
        /\ first + n - 1 <= MaxAttempts
        /\ files' = [i \in 1..n |-> first + i - 1]
        /\ workers' = [k \in 1..wc |->
                          [currentIndex |-> k - 1,
                           state |-> IF k - 1 < n THEN "awaiting" ELSE "finished"]]
        /\ nextIndex' = wc
        /\ results' = [i \in 1..n |-> EmptySlot]
        /\ batch' = "running"
        /\ att' = [a \in Attempts |->
                      IF a \in first..(first + n - 1)
                      THEN [Idle EXCEPT !.route = "bulk", !.bytes = docs[a - first + 1].bytes,
                                        !.rawEmail = docs[a - first + 1].text.email,
                                        !.pc = IF a - first < wc THEN "read" ELSE "queued"]
                      ELSE att[a]]
        /\ UNCHANGED <<inFlightDedupKeys, candidates, blobs, response, faults, probe>>

\* POST /api/ats/upload-resumes whose i-th file is the first one the
\* fileFilter turns down (multer filters the files as they arrive): multer
\* passes the error on, the route handler never runs, whatever the other
\* files are, and the error middleware answers 400
RejectUploadResumes(i, file) ==
    /\ UNCHANGED probe
    /\ batch = "none"
    /\ i \in 1..MaxFiles
    /\ ~fileFilter(file)
    /\ batch' = "rejected"
    /\ response' = onlyPdfResponse
    /\ UNCHANGED <<inFlightDedupKeys, candidates, blobs, att, bulkUploadConcurrency,
                   files, nextIndex, results, workers, faults>>

\* ------------------------------------------------------------------------
\* The steps of one attempt
\* ------------------------------------------------------------------------
\* fsPromises.readFile(file.path) and parseResumeBuffer return, or one of
\* them rejects (two awaits with no shared state touched in between); then
\* hash, path, url, payload and keys are computed and withDedupLock runs up
\* to the first query
ParseResume(a) ==
    /\ UNCHANGED probe
    /\ att[a].pc = "read"
    /\ \E failed \in Outcomes :
       \E rec \in {withLocals(att[a], payloadOf(att[a]))} :
          LET r == IF failed
                   THEN [att |-> settle(att[a],
                                    PlainError(<<"ENOENT: no such file or directory">>)),
                         held |-> inFlightDedupKeys]
                   ELSE withDedupLock(rec, inFlightDedupKeys)
          IN  /\ att' = [att EXCEPT ![a] = r.att]
              /\ inFlightDedupKeys' = r.held
              /\ faults' = IF failed THEN faults + 1 ELSE faults
    /\ UNCHANGED <<candidates, blobs, bulkUploadConcurrency, BatchVars>>

\* one query of findExistingCandidate returns: an error, a row or no row
FinderQuery(a) ==
    /\ UNCHANGED probe
    /\ att[a].pc = "find"
    /\ \E failed \in Outcomes :
          LET rec == att[a]
              hit == selectLatest(candidates, FinderColumns[rec.q], finderArg(rec, rec.q))
              new == IF failed
                     THEN settle(rec, PlainError(<<"Failed duplicate check by ",
                                                  FinderTags[rec.q], ": ", "db error">>))
                     ELSE IF hit # 0
                     THEN finderReturns(rec, rec.phase,
                                        [id |-> hit, matchBy |-> FinderTags[rec.q]])
                     ELSE IF nextQuery(rec, rec.q + 1) = 0
                     THEN finderReturns(rec, rec.phase, NoMatch)
                     ELSE [rec EXCEPT !.q = nextQuery(rec, rec.q + 1)]
          IN  /\ att' = [att EXCEPT ![a] = new]
              /\ inFlightDedupKeys' = afterFn(new, rec.dedupKeys, inFlightDedupKeys)
              /\ faults' = IF failed THEN faults + 1 ELSE faults
    /\ UNCHANGED <<candidates, blobs, bulkUploadConcurrency, BatchVars>>

\* supabase.storage.upload(storagePath, bytes, { upsert: false }) returns:
\* stored, already exists (the object is there), or another error
StorageUpload(a) ==
    /\ UNCHANGED probe
    /\ att[a].pc = "upload"
    /\ \E failed \in Outcomes :
          LET rec == att[a]
              object == <<bucketOf(rec), storagePathOf(rec)>>
              error == IF failed THEN "storage error"
                       ELSE IF object \in blobs THEN "already exists"
                       ELSE ""
              new == IF error # "" /\ ~isStorageAlreadyExistsError(error)
                     THEN settle(rec, PlainError(
                              IF rec.route = "upload" THEN <<error>>
                              ELSE <<"Failed to upload resume to Supabase Storage: ",
                                     error>>))
                     ELSE IF isStorageAlreadyExistsError(error) /\ rec.route # "upload"
                     THEN beginFinder(rec, "exists")
                     ELSE [rec EXCEPT !.pc = "insert"]
          IN  /\ att' = [att EXCEPT ![a] = new]
              /\ blobs' = IF failed THEN blobs ELSE blobs \cup {object}
              /\ inFlightDedupKeys' = afterFn(new, rec.dedupKeys, inFlightDedupKeys)
              /\ faults' = IF failed THEN faults + 1 ELSE faults
    /\ UNCHANGED <<candidates, bulkUploadConcurrency, BatchVars>>

\* supabase.from('candidates').insert(record) returns: the committed row,
\* 23505 (a unique index rejects the row) or another error
StoreInsert(a) ==
    /\ UNCHANGED probe
    /\ att[a].pc = "insert"
    /\ \E failed \in Outcomes :
          LET rec == att[a]
              row == [id |-> Len(candidates) + 1] @@ rec.payload
              error == IF failed THEN "db error"
                       ELSE IF violatesUniqueIndex(rec.payload, candidates) THEN "23505"
                       ELSE ""
              new == IF error = "" THEN settle(rec, Inserted(row.id))
                     ELSE IF isUniqueViolation(error) THEN beginFinder(rec, "conflict")
                     ELSE settle(rec, PlainError(
                              IF rec.route = "upload" THEN <<error>>
                              ELSE <<"Failed to save candidate in database: ", error>>))
          IN  /\ att' = [att EXCEPT ![a] = new]
              /\ candidates' = insert(candidates, row, error)
              /\ inFlightDedupKeys' = afterFn(new, rec.dedupKeys, inFlightDedupKeys)
              /\ faults' = IF failed THEN faults + 1 ELSE faults
    /\ UNCHANGED <<blobs, bulkUploadConcurrency, BatchVars>>

\* a plausible slip: each worker steps through its own indices instead of
\* taking the shared cursor
claimOwnNext(w, cursor, n) ==
    IF w.currentIndex + 1 >= n THEN [w EXCEPT !.state = "finished", !.currentIndex = cursor]
    ELSE [w EXCEPT !.state = "awaiting", !.currentIndex = w.currentIndex + 1]

\* the worker loop after `results[currentIndex] = await handler(...)`:
\* claim the next index and start its handler, or leave the loop
claimNext(w, cursor, n) ==
    IF cursor >= n THEN [w EXCEPT !.state = "finished", !.currentIndex = cursor]
    ELSE [w EXCEPT !.state = "awaiting", !.currentIndex = cursor]

\* deleteTempFile returns (an unlink error is swallowed).  /upload-resume is
\* over; in a batch the handler returns to its worker, which stores the
\* outcome, takes the next index and starts that file's handler.
DeleteTempFile(a) ==
    /\ UNCHANGED probe
    /\ att[a].pc = "unlink"
    /\ IF att[a].route = "bulk"
       THEN LET k == CHOOSE k \in 1..Len(workers) :
                        /\ workers[k].state = "awaiting"
                        /\ files[workers[k].currentIndex + 1] = a
                h == bulkHandler(a, att[a].outcome)
                n == Len(files)
                started == nextIndex < n /\ ~h.thrown
            IN  /\ results' = IF h.thrown THEN results
                              ELSE writeResult(results, workers[k].currentIndex, h.value)
                /\ workers' = [workers EXCEPT ![k] =
                                  IF h.thrown THEN [@ EXCEPT !.state = "rejected"]
                                  ELSE claimNext(@, nextIndex, n)]
                /\ nextIndex' = IF h.thrown THEN nextIndex ELSE nextIndex + 1
                /\ att' = [b \in Attempts |->
                              IF b = a THEN [att[a] EXCEPT !.pc = "done"]
                              ELSE IF started /\ b = files[nextIndex + 1]
                              THEN [att[b] EXCEPT !.pc = "read"]
                              ELSE att[b]]
                /\ batch' = IF h.thrown THEN "failed"
                            ELSE IF batch = "running"
                                    /\ \A j \in 1..Len(workers) :
                                          workers'[j].state = "finished"
                            THEN "done"
                            ELSE batch
                /\ response' = IF batch' = "done"
                               THEN batchResponse(files, results', bulkUploadConcurrency)
                               ELSE response
                /\ UNCHANGED files
       ELSE /\ att' = [att EXCEPT ![a].pc = "done"]
            /\ UNCHANGED BatchVars
    /\ UNCHANGED <<inFlightDedupKeys, candidates, blobs, bulkUploadConcurrency, faults>>

\* multer wrote the file of this attempt to disk (POST /upload keeps it in
\* memory) and the deleteTempFile(file.path) of its handler has not returned
unlinkPending(rec) == rec.route \in {"ats", "bulk"} /\ rec.pc \notin {"none", "done"}

\* the request this attempt belongs to has been answered.  POST
\* /upload-resume: `return res.status(...).json(...)` and `return next(error)`
\* are evaluated inside try/catch, the finally block runs after them, so the
\* answer is out as soon as saveCandidateFromFile has settled.  POST
\* /upload-resumes answers after processFilesWithConcurrency has resolved.
answered(rec, batchAnswer) ==
    IF rec.route = "bulk" THEN batchAnswer # NoResponse
    ELSE rec.pc \in {"unlink", "done"}

\* ------------------------------------------------------------------------
\* Specification
\* ------------------------------------------------------------------------
FileLists == UNION {[1..n -> Documents] : n \in 1..MaxFiles}

Next ==
    \/ \E form \in Forms : PostUpload(form)
    \/ \E d \in Documents : PostUploadResume(d.bytes)
    \/ batch = "none" /\ \E docs \in FileLists, env \in ConcurrencyEnv :
                            PostUploadResumes(docs, env)
    \/ batch = "none" /\ \E i \in 1..MaxFiles, file \in Documents :
                            RejectUploadResumes(i, file)
    \/ \E a \in Attempts : ParseResume(a)
    \/ \E a \in Attempts : FinderQuery(a)
    \/ \E a \in Attempts : StorageUpload(a)
    \/ \E a \in Attempts : StoreInsert(a)
    \/ \E a \in Attempts : DeleteTempFile(a)

Spec == Init /\ [][Next]_vars

\* Every awaited call (file system, store, blob store) eventually returns.
CallsReturn ==
    \A a \in Attempts :
        WF_vars(ParseResume(a) \/ FinderQuery(a) \/ StorageUpload(a)
                  \/ StoreInsert(a) \/ DeleteTempFile(a))

FairSpec == Spec /\ CallsReturn

\* ------------------------------------------------------------------------
\* buildDedupKeys on its own: the arguments are drawn from every mix of null
\* and non-null facts, then the function is called
\* ------------------------------------------------------------------------
KeyEmails == {NULL, normalizeEmail(EmailA), normalizeEmail(<<"B", "@", "x", ".", "i", "o">>),
              <<"h", "@", "p", ".", "i", "o">>, <<"z", "@", "x", ".", "i", "o">>}

KeyPhones == {NULL, normalizePhone(PhoneParens), <<"+", "1", "5", "5", "5", "0", "0", "0">>,
              <<"1", "2", "3", "4", "5", "6", "7">>, <<"9", "9", "9", "9", "9", "9", "9">>}

KeyHashes == {NULL} \cup {buildResumeHash(d.bytes) : d \in Documents}

PureInit ==
    /\ probe \in {[email |-> e, phone |-> p, resumeHash |-> h, keys |-> <<>>, pc |-> "args"] :
                     e \in KeyEmails, p \in KeyPhones, h \in KeyHashes}
    /\ inFlightDedupKeys = {}
    /\ candidates = <<>>
    /\ blobs = {}
    /\ att = [a \in Attempts |-> Idle]
    /\ bulkUploadConcurrency = 0
    /\ files = <<>>
    /\ nextIndex = 0
    /\ results = <<>>
    /\ workers = <<>>
    /\ batch = "none"
    /\ response = NoResponse
    /\ faults = 0

\* buildDedupKeys({ email, phone, resumeHash }) is called and returns
CallBuildDedupKeys ==
    /\ probe.pc = "args"
    /\ probe' = [probe EXCEPT !.keys = buildDedupKeys(probe.email, probe.phone,
                                                      probe.resumeHash),
                              !.pc = "returned"]
    /\ UNCHANGED <<inFlightDedupKeys, candidates, blobs, att, bulkUploadConcurrency,
                   files, nextIndex, results, workers, batch, response, faults>>

PureNext == CallBuildDedupKeys

PureSpec == PureInit /\ [][PureNext]_vars

\* ------------------------------------------------------------------------
\* normalizePhone on its own: two raw phone strings are drawn, each is
\* normalized and its dedup key list is built
\* ------------------------------------------------------------------------
RawPhones ==
    { NULL, PhoneParens, PhoneDots,
      <<"5", "5", "5", "1", "2", "3", "4", "5", "6", "7">>,
      <<"+", "1", " ", "5", "5", "5", " ", "1", "2", "3", " ", "4", "5", "6", "7">>,
      <<"1", "-", "5", "5", "5", "-", "1", "2", "3", "-", "4", "5", "6", "7">>,
      <<"5", "5", "5", " ", "9", "8", "7", " ", "6", "5", "4", "3">>,
      <<"(", "5", "5", "5", ")", "9", "8", "7", "-", "6", "5", "4", "3">>,
      <<"n", "/", "a">>,
      <<"1", "2", "3", "-", "4", "5", "6", "7">>,
      <<"+", "4", "4", " ", "2", "0", " ", "7", "9", "4", "6", " ", "0", "9", "5", "8">>,
      <<"2", "5", "5", "5", "1", "2", "3", "4", "5", "6", "7">>,
      <<"1", "5", "5", "5", "1", "2", "3", "4", "5", "6">> }

PhoneInit ==
    /\ probe \in {[raw |-> <<r1, r2>>, normalized |-> <<NULL, NULL>>,
                    keys |-> <<NULL, NULL>>, pc |-> "raw"] :
                     r1 \in RawPhones, r2 \in RawPhones}
    /\ inFlightDedupKeys = {}
    /\ candidates = <<>>
    /\ blobs = {}
    /\ att = [a \in Attempts |-> Idle]
    /\ bulkUploadConcurrency = 0
    /\ files = <<>>
    /\ nextIndex = 0
    /\ results = <<>>
    /\ workers = <<>>
    /\ batch = "none"
    /\ response = NoResponse
    /\ faults = 0

\* normalizePhone(raw) and buildDedupKeys({ phone }) are called for both
CallNormalizePhone ==
    /\ probe.pc = "raw"
    /\ probe' = [probe EXCEPT
                    !.normalized = <<normalizePhone(probe.raw[1]), normalizePhone(probe.raw[2])>>,
                    !.keys = <<buildDedupKeys(NULL, normalizePhone(probe.raw[1]), NULL),
                               buildDedupKeys(NULL, normalizePhone(probe.raw[2]), NULL)>>,
                    !.pc = "normalized"]
    /\ UNCHANGED <<inFlightDedupKeys, candidates, blobs, att, bulkUploadConcurrency,
                   files, nextIndex, results, workers, batch, response, faults>>

PhoneNext == CallNormalizePhone

PhoneSpec == PhoneInit /\ [][PhoneNext]_vars

\* ------------------------------------------------------------------------
\* processFilesWithConcurrency on its own: a file list (the empty one
\* included) and a limit are drawn, the function is called, and the handler
\* invocations return one by one in any order
\* ------------------------------------------------------------------------
\* the limits getConfig() can produce (0 for 0.5) up to one above the longest
\* list, and the default
DispatchLimits == 0..(MaxFiles + 2) \cup {DefaultConcurrency}

DispatchInit ==
    /\ probe \in {[files |-> [i \in 1..n |-> i], concurrency |-> c, pc |-> "args",
                    nextIndex |-> 0, workers |-> <<>>, results |-> <<>>, invoked |-> <<>>] :
                     n \in 0..(MaxFiles + 1), c \in DispatchLimits}
    /\ inFlightDedupKeys = {}
    /\ candidates = <<>>
    /\ blobs = {}
    /\ att = [a \in Attempts |-> Idle]
    /\ bulkUploadConcurrency = 0
    /\ files = <<>>
    /\ nextIndex = 0
    /\ results = <<>>
    /\ workers = <<>>
    /\ batch = "none"
    /\ response = NoResponse
    /\ faults = 0

\* Promise.all over the workers settles once every worker has left its loop
dispatcherPc(workerList) ==
    IF \A k \in 1..Len(workerList) : workerList[k].state = "finished"
    THEN "resolved" ELSE "running"

\* processFilesWithConcurrency(files, concurrency, handler) is called: the
\* array is allocated and every worker runs up to its first await, that is,
\* claims an index and invokes the handler on it, or leaves the loop
CallDispatcher ==
    /\ probe.pc = "args"
    /\ LET n == Len(probe.files)
           wc == workerCount(probe.concurrency, n)
           started == [k \in 1..wc |->
                          [currentIndex |-> k - 1,
                           state |-> IF k - 1 < n THEN "awaiting" ELSE "finished"]]
       IN  probe' = [probe EXCEPT
                        !.results = [i \in 1..n |-> EmptySlot],
                        !.workers = started,
                        !.nextIndex = wc,
                        !.invoked = [j \in 1..Min(wc, n) |-> j - 1],
                        !.pc = dispatcherPc(started)]
    /\ UNCHANGED <<inFlightDedupKeys, candidates, blobs, att, bulkUploadConcurrency,
                   files, nextIndex, results, workers, batch, response, faults>>

\* the handler invocation worker k awaits returns a value: the worker stores
\* it at its index, takes the cursor and invokes the handler on the next
\* file or leaves the loop
HandlerReturns(k) ==
    /\ probe.pc = "running"
    /\ k \in 1..Len(probe.workers)
    /\ probe.workers[k].state = "awaiting"
    /\ \E ok \in BOOLEAN :
          LET n == Len(probe.files)
              index == probe.workers[k].currentIndex
              value == [ok |-> ok, fileName |-> probe.files[index + 1],
                        candidateId |-> 0, error |-> <<>>]
              after == [probe.workers EXCEPT ![k] = claimNext(@, probe.nextIndex, n)]
          IN  probe' = [probe EXCEPT
                           !.results = writeResult(@, index, value),
                           !.workers = after,
                           !.nextIndex = @ + 1,
                           !.invoked = IF probe.nextIndex < n
                                       THEN Append(@, probe.nextIndex) ELSE @,
                           !.pc = dispatcherPc(after)]
    /\ UNCHANGED <<inFlightDedupKeys, candidates, blobs, att, bulkUploadConcurrency,
                   files, nextIndex, results, workers, batch, response, faults>>

DispatchNext ==
    \/ CallDispatcher
    \/ \E k \in 1..(MaxFiles + 2) : HandlerReturns(k)

DispatchSpec == DispatchInit /\ [][DispatchNext]_vars

\* every handler invocation terminates
HandlersReturn == \A k \in 1..(MaxFiles + 2) : WF_vars(HandlerReturns(k))

DispatchFairSpec == DispatchSpec /\ HandlersReturn

\* ------------------------------------------------------------------------
\* Properties
\* ------------------------------------------------------------------------
Holding(a) == InCriticalSection(att[a])

Settled(a) == att[a].pc \in {"unlink", "done"}

KeysOf(a) == Range(att[a].dedupKeys)

Succeeded(a) == att[a].outcome.kind = "candidate"

InFlightMessage == <<"Duplicate candidate is already being processed.">>

RejectedInFlight(a) ==
    /\ att[a].outcome.kind = "DuplicateCandidateError"
    /\ att[a].outcome.message = InFlightMessage

\* C1 (mutual exclusion): at every moment each dedup key is held by at most
\* one attempt: two attempts that are both between acquisition and release
\* have no key in common, so two attempts never both find a shared key free.
C1_MutualExclusion ==
    \A a \in Attempts : \A b \in Attempts :
        (a # b /\ Holding(a) /\ Holding(b)) => KeysOf(a) \cap KeysOf(b) = {}

\* two attempts share a key; one holds it and the other was turned away
C1_Witness ==
    \E a \in Attempts : \E b \in Attempts :
        /\ a # b
        /\ Holding(a)
        /\ att[b].overlaps = a
        /\ RejectedInFlight(b)
        /\ KeysOf(a) \cap KeysOf(b) # {}

Overlapped(a, b) == a # b /\ att[b].overlaps = a /\ Settled(a) /\ Settled(b)

\* C2 as stated (concurrency safety): of two attempts for the same identity
\* that overlap in time, exactly one ends in success and the other in a
\* duplicate outcome.
C2_ExactlyOneSucceeds ==
    \A a \in Attempts : \A b \in Attempts :
        Overlapped(a, b) =>
            /\ Succeeded(a)
            /\ att[b].outcome.kind = "DuplicateCandidateError"

\* C2 (amended): of two attempts for the same identity that overlap in time,
\* the one that tries the lock while the other holds it ends in the in-flight
\* duplicate outcome and persists nothing; at most one of the two succeeds;
\* the holder ends in success, in a duplicate outcome of its own, or in an
\* error, and in an error only after a backend call failed.
C2_AtMostOneSucceeds ==
    \A a \in Attempts : \A b \in Attempts :
        Overlapped(a, b) =>
            /\ RejectedInFlight(b)
            /\ ~(Succeeded(a) /\ Succeeded(b))
            /\ att[a].outcome.kind \in {"candidate", "DuplicateCandidateError", "Error"}
            /\ (att[a].outcome.kind = "Error" => faults > 0)
            /\ Cardinality({i \in 1..Len(candidates) :
                   \E k \in KeysOf(a) \cap KeysOf(b) :
                       \/ k = <<"email", ":">> \o candidates[i].email
                       \/ k = <<"phone", ":">> \o candidates[i].phone
                       \/ /\ Head(k) = "hash"
                          /\ candidates[i].resume_url = att[a].payload.resume_url}) <= 1

\* an overlapping pair is over: the holder inserted, the other was rejected
C2_Witness ==
    \E a \in Attempts : \E b \in Attempts :
        Overlapped(a, b) /\ Succeeded(a) /\ RejectedInFlight(b) /\ Len(candidates) = 1

\* C3 (store uniqueness): no two rows of the candidates table share a
\* non-null email (compared in lower case), a non-null phone or a non-null
\* resume_url, whatever the application attempted.
C3_StoreUniqueness ==
    \A i \in 1..Len(candidates) : \A j \in 1..Len(candidates) :
        i # j =>
            /\ (Indexed(candidates[i].email) /\ Indexed(candidates[j].email))
                   => lower(candidates[i].email) # lower(candidates[j].email)
            /\ Indexed(candidates[i].phone) => candidates[i].phone # candidates[j].phone
            /\ Indexed(candidates[i].resume_url)
                   => candidates[i].resume_url # candidates[j].resume_url

\* the application attempted a clashing insert and the store turned it down
C3_Witness ==
    /\ Len(candidates) = 1
    /\ \E a \in Attempts :
          /\ att[a].outcome.kind = "DuplicateCandidateError"
          /\ att[a].outcome.message = <<"Duplicate candidate skipped (matched by ",
                                        "constraint", ").">>
          /\ att[a].payload.resume_url = candidates[1].resume_url

\* attempt b ran withDedupLock in this step
LockStep(b) ==
    /\ att[b].pc \in {"none", "read"}
    /\ att'[b].pc \notin {"none", "read", "queued"}

\* C4 (fail-fast acquisition): a call of withDedupLock with a key that is
\* held fails at once with the in-flight duplicate error whose matchBy is
\* the dimension of a colliding key, never waits; fn is not invoked (no
\* query, no upload, no insert) and the held set is unchanged.
C4_FailFast ==
    [][\A b \in Attempts :
          (LockStep(b) /\ Range(att'[b].dedupKeys) \cap inFlightDedupKeys # {}) =>
              /\ att'[b].pc \in {"unlink", "done"}
              /\ att'[b].outcome.kind = "DuplicateCandidateError"
              /\ att'[b].outcome.message = InFlightMessage
              /\ att'[b].outcome.matchBy \in
                    {Head(k) : k \in Range(att'[b].dedupKeys) \cap inFlightDedupKeys}
              /\ inFlightDedupKeys' = inFlightDedupKeys
              /\ candidates' = candidates
              /\ blobs' = blobs]_vars

\* a call whose first key is free and whose last key is held was rejected
\* with the held key's dimension
C4_Witness ==
    \E a \in Attempts : \E b \in Attempts :
        /\ Holding(a)
        /\ att[b].overlaps = a
        /\ Len(att[b].dedupKeys) = 3
        /\ att[b].dedupKeys[1] \notin inFlightDedupKeys
        /\ att[b].dedupKeys[3] \in inFlightDedupKeys
        /\ att[b].outcome.matchBy = "phone"
        /\ Settled(b)

\* C5 (unconditional release): the keys of a call that found them all free
\* stay in the held set for as long as fn runs, and once the call has
\* returned or thrown (success, duplicate error or any other error) none of
\* its keys is in the held set any more, unless another attempt holds it.
C5_UnconditionalRelease ==
    /\ \A a \in Attempts : Holding(a) => KeysOf(a) \subseteq inFlightDedupKeys
    /\ \A a \in Attempts :
          Settled(a) =>
              KeysOf(a) \cap inFlightDedupKeys
                  \subseteq UNION {KeysOf(b) : b \in {c \in Attempts : c # a /\ Holding(c)}}

\* fn threw an error that is not a duplicate error and the keys are gone
C5_Witness ==
    \E a \in Attempts :
        /\ Settled(a)
        /\ att[a].outcome.kind = "Error"
        /\ att[a].dedupKeys # <<>>
        /\ att[a].outcome.message # <<"ENOENT: no such file or directory">>
        /\ inFlightDedupKeys = {}

\* every key a request of the model can ask for
AllKeys ==
    UNION ( {Range(dedupKeysOf("ats",
                 normalizeCandidatePayload(parseResumeText(d.text), NULL), d.bytes))
                : d \in {f \in Documents : fileFilter(f)}}
            \cup
            {Range(dedupKeysOf("upload",
                 normalizeCandidatePayload(
                     [email |-> f.email, phone |-> f.phone, skills |-> <<>>], NULL),
                 f.bytes))
                : f \in Forms} )

NoAttemptInProgress == \A a \in Attempts : att[a].pc \in {"none", "done"}

\* C6 (lock liveness): when every awaited call eventually returns, every key
\* that becomes held is eventually released, and whenever no ingestion
\* attempt is in progress the held set is empty.
C6_LockLiveness ==
    /\ \A k \in AllKeys : (k \in inFlightDedupKeys) ~> (k \notin inFlightDedupKeys)
    /\ [](NoAttemptInProgress => inFlightDedupKeys = {})

\* a key released by a failed holder is held again by a later attempt
C6_Witness ==
    \E a \in Attempts : \E b \in Attempts :
        /\ a # b
        /\ Settled(a)
        /\ att[a].outcome.kind = "Error"
        /\ Holding(b)
        /\ KeysOf(a) \cap KeysOf(b) # {}
        /\ KeysOf(b) \subseteq AllKeys

\* C7 (batch shape preservation): the result array has one position per
\* file; whatever the limit and the completion order, a position that is
\* filled holds the outcome of the handler run on the file at that position,
\* and when processFilesWithConcurrency returns every position is filled.
C7_ShapePreserved ==
    /\ Len(results) = Len(files)
    /\ \A i \in 1..Len(results) :
          results[i] # EmptySlot =>
              /\ results[i].fileName = files[i]
              /\ results[i].ok = Succeeded(files[i])
              /\ results[i].candidateId =
                     (IF Succeeded(files[i]) THEN att[files[i]].outcome.candidateId ELSE 0)
              /\ results[i].error =
                     (IF Succeeded(files[i]) THEN <<>> ELSE att[files[i]].outcome.message)
    /\ batch = "done" => \A i \in 1..Len(results) : results[i] # EmptySlot

\* the second file's handler finished first, and the batch then completed
C7_Witness ==
    /\ batch \in {"running", "done"}
    /\ Len(files) = 2
    /\ results[2] # EmptySlot
    /\ results[2].fileName = files[2]
    /\ att[files[1]].pc \notin {"done", "queued"}

ActiveHandlers ==
    {a \in Attempts : att[a].route = "bulk"
                        /\ att[a].pc \in {"read", "find", "upload", "insert", "unlink"}}

\* C8 (bounded concurrency): the number of handler invocations that have
\* started and not yet finished is at most max(1, min(limit, files.length)),
\* hence at most limit when limit >= 1.
C8_BoundedConcurrency ==
    batch # "none" =>
        LET limit == bulkUploadConcurrency
            n == Len(files)
            least == IF limit < n THEN limit ELSE n
            bound == IF least < 1 THEN 1 ELSE least
        IN  /\ Cardinality(ActiveHandlers) <= bound
            /\ limit >= 1 => Cardinality(ActiveHandlers) <= limit

\* two files under limit 1: one handler runs and the other file waits
C8_Witness ==
    /\ batch = "running"
    /\ bulkUploadConcurrency = 1
    /\ Len(files) = 2
    /\ Cardinality(ActiveHandlers) = 1
    /\ att[files[2]].pc = "queued"

\* C9 (no early abort): a file's failure (duplicate, storage, write or parse
\* failure) rejects no worker and fails no batch; a worker stops only when
\* no file is left to claim, so when all workers have stopped every file has
\* been handled to completion and has its own outcome.
\* (A request turned down by the file filter starts no ingestion at all; it
\* is the subject of C11.)
C9_NoEarlyAbort ==
    /\ batch \in {"none", "running", "done", "rejected"}
    /\ \A k \in 1..Len(workers) : workers[k].state \in {"awaiting", "finished"}
    /\ (batch # "none" /\ \A k \in 1..Len(workers) : workers[k].state = "finished") =>
          \A i \in 1..Len(files) :
              /\ att[files[i]].pc = "done"
              /\ results[i] # EmptySlot
              /\ results[i].ok = Succeeded(files[i])

\* under limit 1 the first file failed with an error and the second file,
\* started afterwards, succeeded
C9_Witness ==
    /\ batch = "done"
    /\ bulkUploadConcurrency = 1
    /\ Len(files) = 2
    /\ att[files[1]].outcome.kind = "Error"
    /\ ~results[1].ok
    /\ results[2].ok

IdenticalPair ==
    /\ batch = "done"
    /\ Len(files) = 2
    /\ att[files[1]].bytes = att[files[2]].bytes
    /\ bulkUploadConcurrency = 8

IsDuplicateMessage(m) ==
    \/ m = InFlightMessage
    \/ \E by \in {"email", "phone", "resume"} :
          m = <<"Duplicate candidate skipped (matched by ", by, ").">>

C11_TallyCoversEveryFile ==
    response # NoResponse =>
        /\ response.totalFiles >= 1
        /\ response.uploadedCount + response.failedCount = response.totalFiles
        /\ (batch = "rejected" => response.failedCount >= 1)

\* C20 (concurrency used): the answer to a completed batch of N files with
\* configured limit L reports concurrencyUsed = max(1, min(L, N)), the
\* number of workers that ran, next to exactly N per-file outcomes, each a
\* success with a record or a failure with a message.
C20_ReportsWorkersUsed ==
    batch = "done" =>
        /\ response.concurrencyUsed = Max(1, Min(bulkUploadConcurrency, Len(files)))
        /\ response.concurrencyUsed = Len(workers)
        /\ Len(results) = Len(files)
        /\ \A i \in 1..Len(results) :
              IF results[i].ok THEN results[i].candidateId # 0
              ELSE results[i].error # <<>>


Started(a) == att[a].route # "none"

IsDuplicate(outcome) ==
    outcome.kind = "DuplicateCandidateError" /\ outcome.message # InFlightMessage

\* C12 (conflict resolution on insert): in every route, an attempt whose
\* insert met a uniqueness violation and that ended with a duplicate outcome
\* carries the id of the record that won: the id is never null and names a
\* persisted record.
C12_ConflictCarriesWinnerId ==
    \A a \in Attempts :
        ("conflict" \in Range(att[a].finderRuns) /\ IsDuplicate(att[a].outcome))
            => att[a].outcome.candidateId \in 1..Len(candidates)

\* the ids of the records persisted by an earlier attempt whose raw email
\* normalizes to the same value as the raw email of attempt a
C13_SameEmailRecords(a) ==
    {att[p].outcome.candidateId : p \in
        {p \in Attempts \ {a} :
            /\ Succeeded(p)
            /\ normalizeEmail(att[a].rawEmail) # NULL
            /\ normalizeEmail(att[p].rawEmail) = normalizeEmail(att[a].rawEmail)}}

\* C13 (dedup by email): when a record is ingested after a record whose raw
\* email normalizes to the same value was persisted, its first finder query
\* that returns ends the attempt as a duplicate matched by email, carrying
\* the id of the persisted record, and no second record is persisted.
C13_DedupByEmail ==
    [][\A a \in Attempts :
          (/\ att[a].pc = "find" /\ att[a].phase = "pre"
           /\ att'[a] # att[a]
           /\ faults' = faults
           /\ C13_SameEmailRecords(a) # {})
          => /\ IsDuplicate(att'[a].outcome)
             /\ att'[a].outcome.matchBy = "email"
             /\ att'[a].outcome.candidateId \in C13_SameEmailRecords(a)
             /\ att'[a].pc \in {"unlink", "done"}
             /\ candidates' = candidates]_vars

\* a record typed with another spelling of a persisted record's email ended
\* as a duplicate matched by email
C13_Witness ==
    \E a \in Attempts : \E p \in Attempts :
        /\ a # p
        /\ Succeeded(p)
        /\ att[a].rawEmail # att[p].rawEmail
        /\ IsDuplicate(att[a].outcome)
        /\ att[a].outcome.matchBy = "email"
        /\ att[a].outcome.candidateId = att[p].outcome.candidateId
        /\ Len(candidates) = 1

NoIdentity(a) ==
    Started(a) /\ att[a].payload.email = NULL /\ att[a].payload.phone = NULL

\* C14 (same file, no other identity): in every route, two attempts that
\* carry identical bytes and no email or phone are never both in the
\* critical section, and at most one of them persists a record.
C14_SameFileExcluded ==
    \A a \in Attempts : \A b \in Attempts :
        (a # b /\ NoIdentity(a) /\ NoIdentity(b) /\ att[a].bytes = att[b].bytes)
            => /\ ~(Holding(a) /\ Holding(b))
               /\ ~(Succeeded(a) /\ Succeeded(b))

\* the rows a query of dimension q by attempt a matches
C15_Hits(a, q) ==
    {i \in 1..Len(candidates) : candidates[i][FinderColumns[q]] = finderArg(att[a], q)}

\* the non-null dimensions of a finder call from dimension `from` on
C15_Live(rec, from) == {q \in from..3 : finderArg(rec, q) # NULL}

C16_FinderAtMostTwice ==
    \A a \in Attempts :
        att[a].finderRuns \in {<<>>, <<"pre">>, <<"pre", "conflict">>}

\* C16 (amended): an attempt calls the finder at most three times: once
\* before any write; once more only when the blob put answers 'already
\* exists', in the file routes and not in POST /upload; and once more only
\* when the insert reports a uniqueness violation.
C16_FinderAtMostThrice ==
    [][\A a \in Attempts :
          att'[a].finderRuns # att[a].finderRuns =>
             \E phase \in {"pre", "exists", "conflict"} :
                /\ att'[a].finderRuns = Append(att[a].finderRuns, phase)
                /\ phase \notin Range(att[a].finderRuns)
                /\ candidates' = candidates
                /\ CASE phase = "pre" ->
                          /\ att[a].finderRuns = <<>>
                          /\ blobs' = blobs
                     [] phase = "exists" ->
                          /\ att[a].finderRuns = <<"pre">>
                          /\ att[a].route # "upload"
                          /\ att[a].pc = "upload"
                          /\ <<bucketOf(att[a]), storagePathOf(att[a])>> \in blobs
                          /\ faults' = faults
                     [] phase = "conflict" ->
                          /\ att[a].pc = "insert"
                          /\ violatesUniqueIndex(att[a].payload, candidates)
                          /\ faults' = faults]_vars

\* an attempt called the finder again after 'already exists'
C16_Witness ==
    \E a \in Attempts : att[a].finderRuns = <<"pre", "exists">>

\* C17 (idempotent blob put): when the blob put answers 'already exists' the
\* attempt treats it as a success and goes on towards the candidate write,
\* still holding its keys; when the put fails in any other way the attempt
\* fails with an error, no record is inserted and its keys are released.
C17_IdempotentPut ==
    [][\A a \in Attempts :
          (att[a].pc = "upload" /\ att'[a] # att[a]) =>
             IF faults' # faults
             THEN /\ att'[a].outcome.kind = "Error"
                  /\ att'[a].pc \in {"unlink", "done"}
                  /\ candidates' = candidates
                  /\ KeysOf(a) \cap inFlightDedupKeys' = {}
             ELSE /\ att'[a].outcome = NoOutcome
                  /\ att'[a].pc \in {"find", "insert"}
                  /\ KeysOf(a) \subseteq inFlightDedupKeys'
                  /\ (<<bucketOf(att[a]), storagePathOf(att[a])>> \in blobs
                         => blobs' = blobs)]_vars

\* an attempt whose put was answered 'already exists' went on and persisted
\* its record
C17_Witness ==
    \E a \in Attempts :
        /\ att[a].finderRuns = <<"pre", "exists">>
        /\ Succeeded(a)

\* C18 (content addressing): every route derives the same storage path and
\* the same public URL for the same bytes: two attempts with identical
\* bytes have identical paths and URLs, whatever routes handle them.
C18_SameAddressEveryRoute ==
    \A a \in Attempts : \A b \in Attempts :
        (Started(a) /\ Started(b) /\ att[a].bytes = att[b].bytes)
            => /\ storagePathOf(att[a]) = storagePathOf(att[b])
               /\ resumeUrlOf(att[a]) = resumeUrlOf(att[b])


\* the key a fact stands for, none for a null fact
C19_KeyOf(tag, fact) == IF fact = NULL THEN {} ELSE {<<tag, ":">> \o fact}

C19_Expected ==
    C19_KeyOf("email", probe.email) \cup C19_KeyOf("phone", probe.phone)
        \cup C19_KeyOf("hash", probe.resumeHash)

C19_NonNull ==
    (IF probe.email # NULL THEN 1 ELSE 0) + (IF probe.phone # NULL THEN 1 ELSE 0)
        + (IF probe.resumeHash # NULL THEN 1 ELSE 0)

\* 'email:...' < 'hash:...' < 'phone:...' in ascending string order
C19_Before(k1, k2) ==
    LET alphabetical == <<"email", "hash", "phone">>
        place(k) == CHOOSE i \in 1..3 : alphabetical[i] = Head(k)
    IN  place(k1) < place(k2)

\* C19 (dedup key builder): for every mix of null and non-null email, phone
\* and digest, buildDedupKeys returns exactly one key per non-null fact and
\* none for a null fact, with no duplicates, in ascending order; the list is
\* a function of the facts alone.
C19_KeyListCanonical ==
    probe.pc = "returned" =>
        /\ Range(probe.keys) = C19_Expected
        /\ Len(probe.keys) = C19_NonNull
        /\ \A i \in 1..Len(probe.keys) : \A j \in 1..Len(probe.keys) :
              i < j => C19_Before(probe.keys[i], probe.keys[j])

\* a call with all three facts returned three keys, and the phone key is
\* the last one
C19_Witness ==
    /\ probe.pc = "returned"
    /\ probe.email # NULL /\ probe.phone # NULL /\ probe.resumeHash # NULL
    /\ Len(probe.keys) = 3
    /\ Head(probe.keys[3]) = "phone"


SingleFile(a) == att[a].route \in {"upload", "ats"} /\ Settled(a)

\* the message names one of the identity dimensions
NamesDimension(message) ==
    \E i \in 1..Len(message) : message[i] \in {"email", "phone", "hash", "resume"}

\* C21 (single-file outcome families): every single-file attempt is
\* answered with the created record, a duplicate conflict or a generic
\* failure; an in-flight collision and a persisted duplicate are both
\* answered 409, and the duplicate answer names the matching dimension and,
\* for a persisted duplicate, the id of the existing record.
C21_DuplicateSignal ==
    \A a \in Attempts :
        SingleFile(a) =>
            LET res == httpResponse(att[a].route, att[a].outcome)
            IN  /\ res.status \in {200, 201, 409, 500}
                /\ (res.status \in {200, 201}) = Succeeded(a)
                /\ (res.status = 409) = (att[a].outcome.kind = "DuplicateCandidateError")
                /\ res.status = 409 =>
                      /\ NamesDimension(res.error)
                      /\ (~RejectedInFlight(a) => res.duplicateCandidateId # 0)


\* the digits of a raw phone string, in order
C22_DigitsOf(raw) == SelectSeq(raw, LAMBDA c : c \in {"0", "1", "2", "3", "4", "5", "6", "7", "8", "9"})

\* the ten digits a raw phone string stands for: its digits when there are
\* ten, the last ten when there are eleven with a leading 1, else none
C22_TenDigits(raw) ==
    LET d == C22_DigitsOf(raw)
    IN  IF Len(d) = 10 THEN d
        ELSE IF Len(d) = 11 /\ d[1] = "1" THEN SubSeq(d, 2, 11)
        ELSE <<>>

\* C22 (phone normalization equivalence): two raw phone strings with the
\* same ten digits, whatever the punctuation and spacing, and with or
\* without a leading 1 as eleventh digit, normalize to the same value: '+1'
\* followed by the ten digits; they give the same phone dedup key; a string
\* with no digits normalizes to null.
C22_PhoneEquivalence ==
    probe.pc = "normalized" =>
        /\ \A i \in {1, 2} :
              /\ C22_TenDigits(probe.raw[i]) # <<>> =>
                    probe.normalized[i] = <<"+", "1">> \o C22_TenDigits(probe.raw[i])
              /\ C22_DigitsOf(probe.raw[i]) = <<>> =>
                    probe.normalized[i] = NULL /\ probe.keys[i] = <<>>
        /\ (C22_TenDigits(probe.raw[1]) # <<>>
              /\ C22_TenDigits(probe.raw[1]) = C22_TenDigits(probe.raw[2]))
              => /\ probe.normalized[1] = probe.normalized[2]
                 /\ probe.keys[1] = probe.keys[2]
                 /\ Len(probe.keys[1]) = 1

\* '(555) 123-4567' and '555.123.4567' both gave '+15551234567'
C22_Witness ==
    /\ probe.pc = "normalized"
    /\ probe.raw = <<PhoneParens, PhoneDots>>
    /\ probe.normalized[1] = <<"+", "1", "5", "5", "5", "1", "2", "3", "4", "5", "6", "7">>
    /\ probe.normalized[2] = probe.normalized[1]


\* C23 (one record per success): the number of candidate records equals the
\* number of attempts that ended in success; a step in which an attempt ends
\* in a failure inserts nothing; and no step changes or removes a record
\* that is already in the table.
C23_OneRecordPerSuccess ==
    /\ [](Len(candidates) = Cardinality({a \in Attempts : Succeeded(a)}))
    /\ [][/\ Len(candidates') >= Len(candidates)
          /\ SubSeq(candidates', 1, Len(candidates)) = candidates
          /\ Len(candidates') - Len(candidates) =
                Cardinality({a \in Attempts :
                                ~Succeeded(a) /\ att'[a].outcome.kind = "candidate"})
          /\ \A a \in Attempts :
                (att[a].outcome = NoOutcome
                    /\ att'[a].outcome.kind \in {"DuplicateCandidateError", "Error"})
                => candidates' = candidates]_vars

\* one attempt persisted its record and another one, past its pre-check,
\* failed with an error: one record is in the table
C23_Witness ==
    /\ Len(candidates) = 1
    /\ \E a \in Attempts : \E b \in Attempts :
          /\ Succeeded(a)
          /\ Settled(b)
          /\ att[b].outcome.kind = "Error"
          /\ "pre" \in Range(att[b].finderRuns)


\* the stage of an attempt: 0 before acquisition, 1 pre-check finder,
\* 2 blob upload, 3 finder after 'already exists', 4 insert, 5 finder after
\* a uniqueness violation, 6 after release
C24_Stage(rec) ==
    CASE rec.pc = "find" /\ rec.phase = "pre" -> 1
      [] rec.pc = "upload" -> 2
      [] rec.pc = "find" /\ rec.phase = "exists" -> 3
      [] rec.pc = "insert" -> 4
      [] rec.pc = "find" /\ rec.phase = "conflict" -> 5
      [] rec.pc \in {"unlink", "done"} -> 6
      [] OTHER -> 0

\* stage `to` is stage `from` or may come next after it
C24_Follows(from, to) ==
    \/ to = from
    \/ from \in {0, 1} /\ to \in {1, 2, 6}
    \/ from \in {2, 3} /\ to \in {3, 4, 6}
    \/ from \in {4, 5} /\ to \in {5, 6}

\* C24 (critical-section ordering): an attempt goes through acquire,
\* pre-check finder, blob upload, insert and release in that order; every
\* store query, blob upload and insert is issued and answered while the
\* attempt holds all of its keys; the blob store changes only in an upload
\* step and the table only in an insert step of an attempt that holds its
\* keys; nothing of the attempt happens after its release.
C24_CriticalSectionOrder ==
    [][/\ \A a \in Attempts :
             /\ C24_Follows(C24_Stage(att[a]), C24_Stage(att'[a]))
             /\ (C24_Stage(att[a]) \in 1..5 /\ att'[a] # att[a])
                   => KeysOf(a) \subseteq inFlightDedupKeys
             /\ C24_Stage(att'[a]) \in 1..5
                   => Range(att'[a].dedupKeys) \subseteq inFlightDedupKeys'
             /\ (C24_Stage(att[a]) \in 1..5 /\ C24_Stage(att'[a]) = 6)
                   => KeysOf(a) \cap inFlightDedupKeys' = {}
       /\ blobs' # blobs =>
             \E a \in Attempts : C24_Stage(att[a]) = 2 /\ C24_Stage(att'[a]) # 2
       /\ candidates' # candidates =>
             \E a \in Attempts : C24_Stage(att[a]) = 4 /\ C24_Stage(att'[a]) = 6]_vars

\* an attempt with an email, a phone and a digest key went through every
\* stage and persisted its record
C24_Witness ==
    \E a \in Attempts :
        /\ Succeeded(a)
        /\ Len(att[a].dedupKeys) = 3
        /\ att[a].finderRuns = <<"pre">>
        /\ <<bucketOf(att[a]), storagePathOf(att[a])>> \in blobs
        /\ KeysOf(a) \cap inFlightDedupKeys = {}


\* the workers whose handler call on file i (counted from 1) is pending
C25_Claimants(i) ==
    {k \in 1..Len(workers) : workers[k].state = "awaiting" /\ workers[k].currentIndex = i - 1}

StoreErrorMessage == "db error"

\* attempt a failed because the store rejected its insert with an error
\* other than a uniqueness violation
WriteFailed(a) ==
    /\ att[a].outcome.kind = "Error"
    /\ att[a].outcome.message # <<>>
    /\ att[a].outcome.message[Len(att[a].outcome.message)] = StoreErrorMessage
    /\ att[a].outcome.message[1] # "Failed duplicate check by "

\* C26 (non-uniqueness write failure), as stated: the attempt fails with the
\* store's error surfaced unchanged: its message is the message the store
\* reported.
C26_SurfacedUnchanged ==
    \A a \in Attempts : WriteFailed(a) => att[a].outcome.message = <<StoreErrorMessage>>

\* C26 (amended): when the store rejects an insert with an error other than
\* a uniqueness violation, the attempt fails with an error that carries the
\* store's message verbatim, as it is in POST /upload and after the prefix
\* 'Failed to save candidate in database: ' in the file routes; the finder
\* is not run again, no record is persisted and the lock is released.
C26_WriteFailureSurfaced ==
    [][\A a \in Attempts :
          (att[a].pc = "insert" /\ att'[a] # att[a] /\ faults' # faults) =>
             /\ att'[a].outcome.kind = "Error"
             /\ att'[a].outcome.message =
                   (IF att[a].route = "upload" THEN <<StoreErrorMessage>>
                    ELSE <<"Failed to save candidate in database: ", StoreErrorMessage>>)
             /\ att'[a].pc \in {"unlink", "done"}
             /\ att'[a].finderRuns = att[a].finderRuns
             /\ candidates' = candidates
             /\ KeysOf(a) \cap inFlightDedupKeys' = {}]_vars

\* an attempt of a file route failed at its insert; its keys are free
C26_Witness ==
    \E a \in Attempts :
        /\ WriteFailed(a)
        /\ att[a].route # "upload"
        /\ KeysOf(a) # {}
        /\ KeysOf(a) \cap inFlightDedupKeys = {}
        /\ candidates = <<>>


\* how the answer to a completed batch reports it: status and message
C27_Report == <<response.status, response.message>>

\* C27 (three-way batch status): the answer to a completed batch tells three
\* cases apart: every file succeeded, some but not all succeeded, no file
\* succeeded; a batch in which all files failed is reported neither like a
\* fully successful batch nor like a partially successful one.
C27_ThreeWayStatus ==
    batch = "done" =>
        LET full == <<201, <<"Bulk upload finished successfully.">> >>
            partial == <<207, <<"Bulk upload finished with partial failures.">> >>
        IN  /\ (response.failedCount = 0) = (C27_Report = full)
            /\ (response.failedCount > 0 /\ response.uploadedCount > 0)
                  = (C27_Report = partial)
            /\ response.uploadedCount = 0 => C27_Report \notin {full, partial}


C28_Upper == {"A", "B", "J", "X"}

\* trimmed, lower-case and not empty
C28_Canonical(text) ==
    /\ text # <<>>
    /\ text[1] # " " /\ text[Len(text)] # " "
    /\ \A i \in 1..Len(text) : text[i] \notin C28_Upper

\* C28 (persisted fields are normalized): every record persisted by any
\* route has an email that is trimmed and lower-case or null, a phone of the
\* form '+' and digits or null, and a skill list whose entries are
\* lower-case, trimmed, non-empty and pairwise different.
C28_PersistedNormalized ==
    \A r \in 1..Len(candidates) :
        LET row == candidates[r] IN
        /\ row.email = NULL \/ C28_Canonical(row.email)
        /\ row.phone = NULL
              \/ (/\ Len(row.phone) >= 2
                  /\ row.phone[1] = "+"
                  /\ \A i \in 2..Len(row.phone) :
                        row.phone[i] \in {"0", "1", "2", "3", "4", "5", "6", "7", "8", "9"})
        /\ \A i \in 1..Len(row.skills) :
              /\ C28_Canonical(row.skills[i])
              /\ \A j \in 1..Len(row.skills) : row.skills[i] = row.skills[j] => i = j


\* C29 (all-or-nothing acquisition without waiting): at every moment each
\* attempt holds every key of its list or none of them, never a part of the
\* list: the held set is exactly the union of the whole key lists of the
\* attempts between acquisition and release.  No attempt waits for a key:
\* the step that calls withDedupLock leaves the attempt inside fn with all
\* its keys held when they were all free, and settled with the in-flight
\* duplicate error otherwise, so no attempt ever holds a key while it asks
\* for another.
C29_AllOrNothing ==
    /\ [](inFlightDedupKeys = UNION {KeysOf(a) : a \in {b \in Attempts : Holding(b)}})
    /\ [][\A b \in Attempts :
             (LockStep(b) /\ att'[b].dedupKeys # <<>>) =>
                 IF Range(att'[b].dedupKeys) \cap inFlightDedupKeys = {}
                 THEN /\ InCriticalSection(att'[b])
                      /\ Range(att'[b].dedupKeys) \subseteq inFlightDedupKeys'
                 ELSE /\ att'[b].pc \in {"unlink", "done"}
                      /\ att'[b].outcome.message = InFlightMessage
                      /\ inFlightDedupKeys' = inFlightDedupKeys]_vars

\* one attempt holds its keys; another one with three keys, one of them
\* shared, was turned away and neither of its two free keys is held
C29_Witness ==
    \E a \in Attempts : \E b \in Attempts :
        /\ Holding(a)
        /\ KeysOf(a) # {}
        /\ KeysOf(a) \subseteq inFlightDedupKeys
        /\ Cardinality(KeysOf(b)) = 3
        /\ att[b].overlaps = a
        /\ RejectedInFlight(b)
        /\ KeysOf(b) \ KeysOf(a) # {}
        /\ (KeysOf(b) \ KeysOf(a)) \cap inFlightDedupKeys = {}


\* a query of the pre-check of attempt a returns a row in this step
C30_FoundBeforeUpload(a) ==
    /\ att[a].pc = "find"
    /\ att[a].phase = "pre"
    /\ att'[a] # att[a]
    /\ faults' = faults
    /\ C15_Hits(a, att[a].q) # {}

\* withDedupLock turns attempt a away in this step
C30_LockRefused(a) ==
    LockStep(a) /\ Range(att'[a].dedupKeys) \cap inFlightDedupKeys # {}

\* C30 (pre-check short-circuit leaves storage untouched): when the
\* pre-check finds a record, or the lock is refused, the attempt ends in
\* that very step with a duplicate error; it has not reached the upload or
\* the insert (its only finder call, if any, is the pre-check), and the blob
\* store and the candidates table are as they were.
C30_ShortCircuit ==
    [][\A a \in Attempts :
          (C30_FoundBeforeUpload(a) \/ C30_LockRefused(a)) =>
              /\ att'[a].pc \in {"unlink", "done"}
              /\ att'[a].outcome.kind = "DuplicateCandidateError"
              /\ att'[a].finderRuns \in {<<>>, <<"pre">>}
              /\ blobs' = blobs
              /\ candidates' = candidates]_vars

\* the pre-check of an attempt found the one stored record: the attempt is a
\* duplicate, its file is not in the blob store and no second row exists
C30_Witness ==
    \E a \in Attempts :
        /\ Settled(a)
        /\ IsDuplicate(att[a].outcome)
        /\ att[a].outcome.candidateId # 0
        /\ att[a].finderRuns = <<"pre">>
        /\ <<bucketOf(att[a]), storagePathOf(att[a])>> \notin blobs
        /\ Len(candidates) = 1


\* attempt b calls withDedupLock in this step (its file, if any, was read)
C31_Calls(b) == LockStep(b) /\ faults' = faults

\* C31 (no spurious in-flight rejection): a call of withDedupLock whose key
\* list shares no key with the held set, an empty list included, acquires
\* its keys and runs fn (the pre-check is called); and an attempt gets the
\* in-flight duplicate error only in a step in which one of its keys is held
\* by another attempt that is between its acquisition and its release.
C31_NoSpuriousRejection ==
    [][\A b \in Attempts :
          /\ (C31_Calls(b) /\ Range(att'[b].dedupKeys) \cap inFlightDedupKeys = {})
                => /\ att'[b].outcome.message # InFlightMessage
                   /\ att'[b].finderRuns = <<"pre">>
                   /\ InCriticalSection(att'[b])
                   /\ Range(att'[b].dedupKeys) \subseteq inFlightDedupKeys'
          /\ (att'[b].outcome.message = InFlightMessage
                 /\ att[b].outcome.message # InFlightMessage)
                => \E a \in Attempts :
                      /\ a # b
                      /\ InCriticalSection(att[a])
                      /\ Range(att[a].dedupKeys) \cap Range(att'[b].dedupKeys) # {}]_vars

\* two attempts with unrelated, non-empty key lists are inside the lock at
\* once, each with all its keys held
C31_Witness ==
    \E a \in Attempts : \E b \in Attempts :
        /\ a # b
        /\ Holding(a) /\ Holding(b)
        /\ KeysOf(a) # {} /\ KeysOf(b) # {}
        /\ KeysOf(a) \cap KeysOf(b) = {}
        /\ inFlightDedupKeys = KeysOf(a) \cup KeysOf(b)


\* C32 (dispatcher termination): when every handler invocation terminates,
\* a call of processFilesWithConcurrency resolves; when it has resolved no
\* handler invocation is pending, the handler was invoked exactly once on
\* every file and every position of the array holds the value returned for
\* the file at that position; for an empty list the call resolves to an
\* empty array and the handler is never invoked.
C32_DispatcherTerminates ==
    /\ (probe.pc = "running") ~> (probe.pc = "resolved")
    /\ [](probe.pc = "resolved" =>
             /\ \A k \in 1..Len(probe.workers) : probe.workers[k].state # "awaiting"
             /\ Len(probe.results) = Len(probe.files)
             /\ \A i \in 1..Len(probe.files) :
                   /\ probe.results[i] # EmptySlot
                   /\ probe.results[i].fileName = probe.files[i]
                   /\ Cardinality({j \in 1..Len(probe.invoked) :
                                      probe.invoked[j] = i - 1}) = 1
             /\ Len(probe.invoked) = Len(probe.files))
    /\ []((probe.pc # "args" /\ probe.files = <<>>) =>
             /\ probe.pc = "resolved"
             /\ probe.results = <<>>
             /\ probe.invoked = <<>>)

\* a call with more files than workers has resolved: two workers shared
\* three files
C32_Witness ==
    /\ probe.pc = "resolved"
    /\ Len(probe.files) = 3
    /\ Len(probe.workers) = 2
    /\ \A i \in 1..3 : probe.results[i] # EmptySlot


\* C33 (temp-file cleanup): in the batch route and the single-file ATS
\* route, once the response of a request is sent the deletion of every temp
\* file of that request is over, whatever the outcome of the file's attempt
\* (success, duplicate or another error): no attempt of an answered request
\* still has its deleteTempFile ahead of it.
C33_NoTempFileAtResponse ==
    \A a \in Attempts :
        (att[a].route \in {"ats", "bulk"} /\ answered(att[a], response))
            => ~unlinkPending(att[a])

====
